---- MODULE Spec2Model ----
(***************************************************************************)
(* Model of the Elf starter kit (stowball/elf):                            *)
(*   - src/_data/cacheBust.js, the Cache-Bust Resolver;                    *)
(*   - the npm scripts that drive webpack and Eleventy (dev, prod, ...);   *)
(*   - the permalink template of src/_pages/_pages.json.                   *)
(* Spec          is the build system: scripts, webpack, Eleventy and the   *)
(*               Resolver, interleaved with the wall clock.                *)
(* SpecPermalink is the Permalink Deriver applied to file path stems.      *)
(* SpecHtmlmin   is .eleventy.js: the htmlmin transform and its registration.*)
(* SpecPermalinkPair is the Permalink Deriver applied to two pages.        *)
(* SpecWebpack   is webpack.config.dev.js / webpack.config.prod.js.        *)
(***************************************************************************)
EXTENDS Integers, Sequences, FiniteSets, TLC

VARIABLES
    script,        \* the npm script being run, or "none"
    task,          \* status of each task of the running script
    env,           \* process.env.ELEVENTY_ENV of the Eleventy process
    source,        \* version of each asset source (src/assets, node_modules imports)
    fs,            \* src/compiled-assets: path -> bytes, or Absent
    dist,          \* dist/: what the last site build wrote, or Absent
    clock,         \* the wall clock, Date.now()
    wp,            \* the webpack process
    elpc,          \* position of the Eleventy process
    idx,           \* position of the reduce loop in Object.entries(files)
    acc,           \* the accumulator of the reduce loop
    cur,           \* the latest Resolver invocation: what it read and how it ended
    prev,          \* the invocation before it, with the table it returned
    builds,        \* number of Resolver invocations so far
    transforms,    \* the transforms registered with eleventyConfig
    heap,          \* the objects the Resolver has created in the running process
    accRef,        \* the object the reduce accumulates into, 0 before any
    outputPath,    \* the output path of the template being written
    content,       \* its rendered content
    output,        \* what is written for it after the transforms
    hpc,           \* position of the template rendering
    otherStem,     \* the filePathStem of a second page of the site
    otherPermalink,\* the permalink rendered for the second page
    common,        \* module.exports of webpack.config.common.js
    configFile,    \* the mode-specific config file webpack is given
    config,        \* module.exports of that file
    cpc,           \* position of the config evaluation
    filePathStem,  \* page.filePathStem of the page being rendered
    permalink,     \* the permalink computed for that page
    ppc            \* position of the permalink rendering

buildVars == <<script, task, env, source, fs, dist, clock, wp,
               elpc, idx, acc, cur, prev, builds>>
permalinkVars == <<filePathStem, permalink, ppc, otherStem, otherPermalink>>
memoryVars == <<heap, accRef>>
htmlVars == <<outputPath, content, output, hpc>>
configVars == <<common, configFile, config, cpc>>
vars == <<script, task, env, source, fs, dist, clock, wp,
          elpc, idx, acc, cur, prev, builds,
          filePathStem, permalink, ppc,
          transforms, heap, accRef, outputPath, content, output, hpc,
          otherStem, otherPermalink, common, configFile, config, cpc>>

-----------------------------------------------------------------------------
(* Bounds *)

MaxDepth == 3
MaxClock == 1
MaxBuilds == 2

-----------------------------------------------------------------------------
(* JavaScript strings *)

\* String.prototype.indexOf: 1-based position of the first occurrence, 0 if none
IndexOf(s, pat) ==
    LET n == Len(s)
        m == Len(pat)
        hits == {i \in 1..(n - m + 1) : SubSeq(s, i, i + m - 1) = pat}
    IN  IF hits = {} THEN 0 ELSE CHOOSE i \in hits : \A j \in hits : i <= j

\* String.prototype.replace with a string pattern: only the first occurrence
Replace(s, pat, by) ==
    LET i == IndexOf(s, pat)
    IN  IF i = 0 THEN s
        ELSE SubSeq(s, 1, i - 1) \o by \o SubSeq(s, i + Len(pat), Len(s))

\* String.prototype.endsWith
EndsWith(s, suffix) ==
    /\ Len(s) >= Len(suffix)
    /\ SubSeq(s, Len(s) - Len(suffix) + 1, Len(s)) = suffix

-----------------------------------------------------------------------------
(* Permalink Deriver: src/_pages/_pages.json *)

\* the "index" segment is replaced without its leading separator
PermalinkNoSeparator(stem) ==
    Replace(Replace(stem, "/_pages", ""), "index", "") \o "/index.html"

Permalink(stem) ==
    Replace(Replace(stem, "/_pages", ""), "/index", "") \o "/index.html"

\* names of files and directories under src/_pages
Segments == {"index", "foo", "bar", "baz", "qux", "indexes"}

RECURSIVE PathsOfDepth(_)
PathsOfDepth(d) ==
    IF d = 0 THEN {""}
    ELSE {p \o "/" \o s : p \in PathsOfDepth(d - 1), s \in Segments}

\* the filePathStem Eleventy gives a template under src/_pages
Stems == {"/_pages" \o p : p \in UNION {PathsOfDepth(d) : d \in 1..MaxDepth}}

-----------------------------------------------------------------------------
(* Cache-Bust Resolver data: src/_data/cacheBust.js *)

\* Object.entries(files) visits the keys in insertion order
Keys == <<"mainCss", "mainJs", "vendorJs">>

files ==
    [mainCss  |-> "./src/compiled-assets/main.css",
     mainJs   |-> "./src/compiled-assets/main.js",
     vendorJs |-> "./src/compiled-assets/vendor.js"]

KeySet == {Keys[i] : i \in 1..Len(Keys)}
Paths == {files[k] : k \in KeySet}

\* the value of a path with no file (ENOENT); no byte is negative
Absent == <<-1>>

\* JavaScript values of the two token types
Num(n) == [type |-> "number", val |-> n]
Str(s) == [type |-> "string", val |-> s]
TokEq(a, b) == a.type = b.type /\ a.val = b.val

HexDigits == <<"0", "1", "2", "3", "4", "5", "6", "7",
               "8", "9", "a", "b", "c", "d", "e", "f">>
Hex2(n) == HexDigits[(n \div 16) + 1] \o HexDigits[(n % 16) + 1]

\* md5 is narrowed to an 8-bit digest of the byte sequence; what the model
\* keeps is that the digest is computed from the bytes, in order, and from
\* nothing else, and that it is returned hex-encoded.
RECURSIVE DigestFold(_, _)
DigestFold(h, bytes) ==
    IF bytes = <<>> THEN h
    ELSE DigestFold((h * 33 + Head(bytes)) % 256, Tail(bytes))

\* md5File.sync(path): throws when the file cannot be opened
md5FileSync(path, disk) == Str(Hex2(DigestFold(212, disk[path])))

\* the digest is salted with the key
BustSaltedByKey(key, path, now, mode, disk) ==
    IF mode = "production"
    THEN Str(Hex2(DigestFold(212 + Len(key), disk[path])))
    ELSE Num(now)

\* the digest is salted with the time of the build
BustTimeSalted(key, path, now, mode, disk) ==
    IF mode = "production"
    THEN Str(Hex2(DigestFold((212 + now) % 256, disk[path])))
    ELSE Num(now)

\* one digest of the whole compiled-assets directory for every entry
BustWholeDirectory(key, path, now, mode, disk) ==
    IF mode = "production"
    THEN Str(Hex2(DigestFold(DigestFold(DigestFold(DigestFold(212, disk[path]),
            disk["./src/compiled-assets/main.css"]),
            disk["./src/compiled-assets/main.js"]),
            disk["./src/compiled-assets/vendor.js"])))
    ELSE Num(now)

BustSkewed(key, path, now, mode, disk) ==
    IF mode = "production" THEN md5FileSync(path, disk) ELSE Num(now + 1)

\* the digest is taken whenever the file can be read, whatever the mode
BustHashWhenPresent(key, path, now, mode, disk) ==
    IF disk[path] # Absent THEN md5FileSync(path, disk) ELSE Num(now)

\* the bust of one call of the reducer
Bust(key, path, now, mode, disk) ==
    IF mode = "production" THEN md5FileSync(path, disk) ELSE Num(now)

\* a missing file is tolerated in every mode
ThrowsNever(path, mode, disk) == FALSE

\* a missing file is fatal in every mode
ThrowsAnyMode(path, mode, disk) == disk[path] = Absent

\* md5File.sync is called, and throws, exactly in production on a missing file
Throws(path, mode, disk) == mode = "production" /\ disk[path] = Absent

\* the paths the entry hands to md5File.sync
ReadsOf(path, mode) == IF mode = "production" THEN {path} ELSE {}

\* the reduce skips the vendor entry
AccSetSkipsVendor(a, key, bust) ==
    IF key = "vendorJs" THEN a ELSE (key :> bust) @@ a

\* acc[key] = bust
AccSet(a, key, bust) == (key :> bust) @@ a

-----------------------------------------------------------------------------
(* webpack: webpack.config.common.js, .dev.js, .prod.js *)

NoImports == 0
SourceVersions == 0..1

PathTag(p) ==
    IF p = files.mainCss THEN 1 ELSE IF p = files.mainJs THEN 2 ELSE 3

\* the chunks of one compilation: vendor.js only with imports from node_modules
Emitted(snap) ==
    {files.mainCss, files.mainJs}
        \cup (IF snap[files.vendorJs] = NoImports THEN {} ELSE {files.vendorJs})

\* bytes of a compiled asset: empty for an empty source, minified in production
Output(p, snap, wmode) ==
    IF snap[p] = 0 THEN <<>>
    ELSE IF wmode = "production" THEN <<PathTag(p), snap[p]>>
    ELSE <<PathTag(p), 10, snap[p], 10>>

WpOff == [pc |-> "off", task |-> "none", mode |-> "none",
          snap |-> [p \in Paths |-> 0], pending |-> {}, writing |-> "none"]

-----------------------------------------------------------------------------
(* npm scripts: package.json *)

AllTasks == {"del:dist", "build:assets", "build:site",
             "dev:assets", "dev:site", "eleventy"}

Scripts == {"prod", "dev", "build:site", "eleventy"}

\* the scripts of a production session and of a development session
ProdScripts == {"prod", "build:site", "eleventy"}
DevScripts == {"dev"}

\* the tasks of a script, in the order npm-run-all is given them
ScriptTasks(s) ==
    IF s = "prod" THEN <<"del:dist", "build:assets", "build:site">>
    ELSE IF s = "dev" THEN <<"dev:assets", "dev:site">>
    ELSE IF s = "build:site" THEN <<"build:site">>
    ELSE <<"eleventy">>

\* only the dev script passes --parallel
Parallel(s) == s = "dev"

TaskSet(s) == {ScriptTasks(s)[i] : i \in 1..Len(ScriptTasks(s))}

\* every script runs its tasks at once
RunnableAllParallel(t) ==
    /\ script # "none"
    /\ t \in TaskSet(script)
    /\ task[t] = "pending"

\* npm-run-all starts a task of a sequential script once all tasks before it
\* have finished successfully, and any task of a parallel script at once
Runnable(t) ==
    /\ script # "none"
    /\ t \in TaskSet(script)
    /\ task[t] = "pending"
    /\ \/ Parallel(script)
       \/ \A i \in 1..Len(ScriptTasks(script)) :
            \A j \in 1..(i - 1) :
                ScriptTasks(script)[i] = t => task[ScriptTasks(script)[j]] = "done"

\* ELEVENTY_ENV as the scripts set it; a bare `npx eleventy` inherits the shell's
EnvOf(t) ==
    IF t = "build:site" THEN {"production"}
    ELSE IF t = "dev:site" THEN {"development"}
    ELSE {"undefined", "staging", "PRODUCTION"}

SiteTasks == {"build:site", "dev:site", "eleventy"}
AssetTasks == {"build:assets", "dev:assets"}

\* dist/: the files in it
NoDist == {}

\* what an invocation has read of a path it has not handed to md5File.sync
Unread == <<-2>>

NoCur == [env |-> "undefined", outcome |-> "none",
          seen |-> [p \in Paths |-> Unread], startClock |-> 0, table |-> <<>>,
          ref |-> 0]
NoPrev == [env |-> "undefined", outcome |-> "none",
           seen |-> [p \in Paths |-> Unread], table |-> <<>>, ref |-> 0]

\* the objects of the process memory that some reference in refs still holds
Reachable(h, refs) == [r \in DOMAIN h \cap refs |-> h[r]]

\* the reduce accumulates into one object kept across invocations
SharedObject(count, last) == IF last = 0 THEN count + 1 ELSE last

\* the {} literal of the reduce: an object no earlier invocation has seen
FreshObject(count, last) == count + 1

\* the transform is registered unless the build is a development build
RegisteredUnlessDevelopment(e) == IF e # "development" THEN {"htmlmin"} ELSE {}

\* .eleventy.js registers htmlmin in a production build only
RegisteredTransforms(e) == IF e = "production" THEN {"htmlmin"} ELSE {}

-----------------------------------------------------------------------------
(* Initial state: a fresh clone, nothing compiled, nothing built *)

(* webpack configuration: values of the config objects *)

Scalar(v) == [kind |-> "scalar", val |-> v]
Boolean(b) == [kind |-> "boolean", val |-> b]
Instance(class) == [kind |-> "instance", val |-> class]
Arr(elems) == [kind |-> "array", val |-> elems]
Obj(fields) == [kind |-> "object", val |-> fields]

\* module.exports of webpack.config.common.js
CommonConfig ==
    Obj([entry |-> Scalar("./src/assets/js/index.js"),
         output |-> Obj([library |-> Scalar("SITE"),
                         path |-> Scalar("src/compiled-assets")]),
         module |-> Obj([rules |-> Arr(<<
                         Obj([test |-> Scalar("\\.js$"),
                              use |-> Scalar("babel-loader"),
                              exclude |-> Scalar("node_modules")]),
                         Obj([test |-> Scalar("\\.scss$"),
                              use |-> Arr(<<Scalar("MiniCssExtractPlugin.loader"),
                                            Scalar("css-loader"),
                                            Scalar("postcss-loader"),
                                            Scalar("sass-loader")>>)])>>)]),
         optimization |-> Obj([splitChunks |-> Obj([cacheGroups |->
                         Obj([commons |->
                              Obj([test |-> Scalar("[\\/]node_modules[\\/]"),
                                   name |-> Scalar("vendor"),
                                   chunks |-> Scalar("all")])])])]),
         plugins |-> Arr(<<Instance("MiniCssExtractPlugin")>>)])

CommonKeys == DOMAIN CommonConfig.val

\* the common config with the settings in keys, as the tutorial builds it up
CommonWith(keys) == Obj([k \in keys |-> CommonConfig.val[k]])

ConfigFiles == {"webpack.config.dev.js", "webpack.config.prod.js"}

\* the second argument of merge in each mode-specific file
ModeConfig(file) ==
    IF file = "webpack.config.prod.js"
    THEN Obj([mode |-> Scalar("production"),
              optimization |-> Obj([minimizer |-> Arr(<<
                    Instance("OptimizeCssAssetsPlugin"),
                    Instance("TerserPlugin")>>)])])
    ELSE Obj([mode |-> Scalar("development"),
              watch |-> Boolean("true")])

RECURSIVE merge(_, _)

\* the second object replaces the first key by key, as Object.assign does
ShallowMerge(a, b) ==
    Obj([k \in DOMAIN a.val \cup DOMAIN b.val |->
            IF k \in DOMAIN b.val THEN b.val[k] ELSE a.val[k]])

\* merge of webpack-merge: arrays are concatenated, objects merged key by
\* key, anything else is taken from the second argument
merge(a, b) ==
    Obj([k \in DOMAIN a.val \cup DOMAIN b.val |->
            IF k \notin DOMAIN b.val THEN a.val[k]
            ELSE IF k \notin DOMAIN a.val THEN b.val[k]
            ELSE LET x == a.val[k]
                     y == b.val[k]
                 IN  IF x.kind = "array" /\ y.kind = "array"
                     THEN Arr(x.val \o y.val)
                     ELSE IF x.kind = "object" /\ y.kind = "object"
                          THEN merge(x, y)
                          ELSE y])

InitTools ==
    /\ script = "none"
    /\ task = [t \in AllTasks |-> "none"]
    /\ env = "undefined"
    /\ fs = [p \in Paths |-> Absent]
    /\ dist = NoDist
    /\ clock = 0
    /\ wp = WpOff
    /\ elpc = "off"
    /\ idx = 1
    /\ acc = <<>>
    /\ cur = NoCur
    /\ prev = NoPrev
    /\ builds = 0
    /\ transforms = {}
    /\ heap = <<>>
    /\ accRef = 0

\* the sources are the user's: any of them may be empty, or import nothing
InitBuild == InitTools /\ source \in [Paths -> SourceVersions]

InitPermalinkIdle ==
    /\ filePathStem = "/_pages/index"
    /\ permalink = ""
    /\ ppc = "idle"
    /\ otherStem = ""
    /\ otherPermalink = ""

InitHtmlIdle ==
    /\ outputPath = "dist/index.html"
    /\ content = <<>>
    /\ output = <<>>
    /\ hpc = "idle"

InitConfigIdle ==
    /\ common = CommonConfig
    /\ configFile = "webpack.config.dev.js"
    /\ config = Obj(<<>>)
    /\ cpc = "idle"

Init == InitBuild /\ InitPermalinkIdle /\ InitHtmlIdle /\ InitConfigIdle

-----------------------------------------------------------------------------
(* The environment: the user and the wall clock *)

\* npm run <s>
StartScript(s) ==
    /\ script = "none"
    /\ builds < MaxBuilds
    /\ script' = s
    /\ task' = [t \in AllTasks |-> IF t \in TaskSet(s) THEN "pending" ELSE "none"]
    /\ UNCHANGED <<env, source, fs, dist, clock, wp, elpc, idx, acc, cur,
                   prev, builds>>
    /\ UNCHANGED permalinkVars
    /\ UNCHANGED <<transforms, memoryVars, htmlVars>>
    /\ UNCHANGED configVars

\* the script ends: every task has finished, a task of a sequential script
\* has failed, or the user interrupts the dev servers. Eleventy writes nothing
\* before the end of a build, so an interrupt during a build leaves the files
\* as an interrupt before it does, and is taken there; webpack is interrupted
\* anywhere, also between the truncation and the write of an asset.
EndScript ==
    /\ script # "none"
    /\ \/ \A t \in TaskSet(script) : task[t] = "done"
       \/ \E t \in TaskSet(script) : task[t] = "failed"
       \/ Parallel(script) /\ elpc \in {"off", "watch"}
    /\ script' = "none"
    /\ task' = [t \in AllTasks |-> "none"]
    /\ wp' = WpOff
    /\ elpc' = "off"
    /\ idx' = 1
    /\ acc' = <<>>
    /\ heap' = <<>>
    /\ accRef' = 0
    /\ UNCHANGED <<env, source, fs, dist, clock, cur, prev, builds>>
    /\ UNCHANGED permalinkVars
    /\ UNCHANGED <<transforms, htmlVars>>
    /\ UNCHANGED configVars

\* the user edits a stylesheet or a script, or adds or removes an import;
\* an edit is observed by the next compilation only, so it is taken between
\* scripts or while webpack watches
EditSource(p, v) ==
    /\ script = "none" \/ wp.pc = "watch"
    /\ v # source[p]
    /\ source' = [source EXCEPT ![p] = v]
    /\ UNCHANGED <<script, task, env, fs, dist, clock, wp, elpc, idx, acc,
                   cur, prev, builds>>
    /\ UNCHANGED permalinkVars
    /\ UNCHANGED <<transforms, memoryVars, htmlVars>>
    /\ UNCHANGED configVars

\* the clock is read by the reducer only, so it is advanced while the reduce
\* runs: time that passed earlier shows as ticks before the first entry
Tick ==
    /\ clock < MaxClock
    /\ elpc = "reduce"
    /\ clock' = clock + 1
    /\ UNCHANGED <<script, task, env, source, fs, dist, wp, elpc,
                   idx, acc, cur, prev, builds>>
    /\ UNCHANGED permalinkVars
    /\ UNCHANGED <<transforms, memoryVars, htmlVars>>
    /\ UNCHANGED configVars

-----------------------------------------------------------------------------
(* del:dist: rimraf ./dist *)

DelDist ==
    /\ Runnable("del:dist")
    /\ dist' = NoDist
    /\ task' = [task EXCEPT !["del:dist"] = "done"]
    /\ UNCHANGED <<script, env, source, fs, clock, wp, elpc, idx,
                   acc, cur, prev, builds>>
    /\ UNCHANGED permalinkVars
    /\ UNCHANGED <<transforms, memoryVars, htmlVars>>
    /\ UNCHANGED configVars

-----------------------------------------------------------------------------
(* build:assets and dev:assets: webpack *)

WebpackMode(t) == IF t = "build:assets" THEN "production" ELSE "development"

\* webpack starts and compiles the sources as they are now
WebpackStart(t) ==
    /\ t \in AssetTasks
    /\ Runnable(t)
    /\ task' = [task EXCEPT ![t] = "running"]
    /\ wp' = [pc |-> "emit", task |-> t, mode |-> WebpackMode(t),
              snap |-> source, pending |-> Emitted(source), writing |-> "none"]
    /\ UNCHANGED <<script, env, source, fs, dist, clock, elpc, idx,
                   acc, cur, prev, builds>>
    /\ UNCHANGED permalinkVars
    /\ UNCHANGED <<transforms, memoryVars, htmlVars>>
    /\ UNCHANGED configVars

\* a compiled asset is opened for writing, which truncates it
WebpackOpen(p) ==
    /\ wp.pc = "emit"
    /\ wp.writing = "none"
    /\ p \in wp.pending
    /\ \A q \in wp.pending : PathTag(p) <= PathTag(q)
    /\ fs' = [fs EXCEPT ![p] = <<>>]
    /\ wp' = [wp EXCEPT !.writing = p]
    /\ UNCHANGED <<script, task, env, source, dist, clock, elpc,
                   idx, acc, cur, prev, builds>>
    /\ UNCHANGED permalinkVars
    /\ UNCHANGED <<transforms, memoryVars, htmlVars>>
    /\ UNCHANGED configVars

\* its bytes are written and it is closed
WebpackWrite ==
    /\ wp.pc = "emit"
    /\ wp.writing # "none"
    /\ fs' = [fs EXCEPT ![wp.writing] = Output(wp.writing, wp.snap, wp.mode)]
    /\ wp' = [wp EXCEPT !.writing = "none", !.pending = @ \ {wp.writing}]
    /\ UNCHANGED <<script, task, env, source, dist, clock, elpc,
                   idx, acc, cur, prev, builds>>
    /\ UNCHANGED permalinkVars
    /\ UNCHANGED <<transforms, memoryVars, htmlVars>>
    /\ UNCHANGED configVars

\* the compilation is over: build:assets exits, dev:assets goes on watching
WebpackDone ==
    /\ wp.pc = "emit"
    /\ wp.writing = "none"
    /\ wp.pending = {}
    /\ IF wp.task = "dev:assets"
       THEN /\ wp' = [wp EXCEPT !.pc = "watch"]
            /\ UNCHANGED task
       ELSE /\ wp' = WpOff
            /\ task' = [task EXCEPT ![wp.task] = "done"]
    /\ UNCHANGED <<script, env, source, fs, dist, clock, elpc, idx,
                   acc, cur, prev, builds>>
    /\ UNCHANGED permalinkVars
    /\ UNCHANGED <<transforms, memoryVars, htmlVars>>
    /\ UNCHANGED configVars

\* watch: true, a changed source starts a new compilation
WebpackRecompile ==
    /\ wp.pc = "watch"
    /\ wp.snap # source
    /\ wp' = [wp EXCEPT !.pc = "emit", !.snap = source,
                        !.pending = Emitted(source)]
    /\ UNCHANGED <<script, task, env, source, fs, dist, clock, elpc,
                   idx, acc, cur, prev, builds>>
    /\ UNCHANGED permalinkVars
    /\ UNCHANGED <<transforms, memoryVars, htmlVars>>
    /\ UNCHANGED configVars

-----------------------------------------------------------------------------
(* build:site, dev:site and a bare eleventy: Eleventy and its global data *)

ElTask == CHOOSE t \in SiteTasks : task[t] = "running"

\* Eleventy starts with the ELEVENTY_ENV its script sets
ElStart(t, e) ==
    /\ t \in SiteTasks
    /\ Runnable(t)
    /\ e \in EnvOf(t)
    /\ builds < MaxBuilds
    /\ task' = [task EXCEPT ![t] = "running"]
    /\ env' = e
    /\ transforms' = RegisteredTransforms(e)
    /\ elpc' = "data"
    /\ UNCHANGED <<script, source, fs, dist, clock, wp, idx, acc,
                   cur, prev, builds>>
    /\ UNCHANGED permalinkVars
    /\ UNCHANGED <<memoryVars, htmlVars>>
    /\ UNCHANGED configVars

\* cacheBust(): files is declared and the reduce starts from {}
CacheBustCall ==
    /\ elpc = "data"
    /\ elpc' = "reduce"
    /\ idx' = 1
    /\ acc' = <<>>
    /\ prev' = [env |-> cur.env, outcome |-> cur.outcome, seen |-> cur.seen,
                table |-> cur.table, ref |-> cur.ref]
    /\ accRef' = FreshObject(builds, accRef)
    /\ heap' = (accRef' :> <<>>) @@ Reachable(heap, {cur.ref})
    /\ cur' = [env |-> env, outcome |-> "running",
               seen |-> [p \in Paths |-> Unread], startClock |-> clock,
               table |-> <<>>, ref |-> accRef']
    /\ builds' = builds + 1
    /\ UNCHANGED <<script, task, env, source, fs, dist, clock, wp>>
    /\ UNCHANGED permalinkVars
    /\ UNCHANGED <<transforms, htmlVars>>
    /\ UNCHANGED configVars

\* one call of the reducer: now, bust, acc[key] = bust
CacheBustEntry ==
    /\ elpc = "reduce"
    /\ idx <= Len(Keys)
    /\ LET key == Keys[idx]
           path == files[key]
           now == clock
           seen == [p \in Paths |->
                        IF p \in ReadsOf(path, env) THEN fs[p] ELSE cur.seen[p]]
       IN  IF Throws(path, env, fs)
           THEN /\ elpc' = "failed"
                /\ task' = [task EXCEPT ![ElTask] = "failed"]
                /\ acc' = <<>>
                /\ cur' = [cur EXCEPT !.seen = seen, !.outcome = "thrown",
                                      !.startClock = 0]
                /\ UNCHANGED <<idx, heap>>
           ELSE /\ acc' = AccSet(acc, key, Bust(key, path, now, env, fs))
                /\ heap' = [heap EXCEPT ![accRef] =
                                AccSet(@, key, Bust(key, path, now, env, fs))]
                /\ idx' = idx + 1
                /\ cur' = [cur EXCEPT !.seen = seen]
                /\ UNCHANGED <<elpc, task>>
    /\ UNCHANGED <<script, env, source, fs, dist, clock, wp,
                   prev, builds>>
    /\ UNCHANGED permalinkVars
    /\ UNCHANGED <<transforms, accRef, htmlVars>>
    /\ UNCHANGED configVars

\* the reduce returns acc, which becomes the cacheBust global data
CacheBustReturn ==
    /\ elpc = "reduce"
    /\ idx > Len(Keys)
    /\ elpc' = "write"
    /\ cur' = [cur EXCEPT !.outcome = "returned", !.startClock = 0,
                          !.table = acc]
    /\ UNCHANGED <<script, task, env, source, fs, dist, clock, wp,
                   idx, acc, prev, builds>>
    /\ UNCHANGED permalinkVars
    /\ UNCHANGED <<transforms, memoryVars, htmlVars>>
    /\ UNCHANGED configVars

\* Eleventy renders the pages with the table and copies the compiled assets
ElWrite ==
    /\ elpc = "write"
    /\ dist' = {p \in Paths : fs[p] # Absent} \cup {"index.html"}
    /\ IF ElTask = "dev:site"
       THEN /\ elpc' = "watch"
            /\ UNCHANGED task
       ELSE /\ elpc' = "off"
            /\ task' = [task EXCEPT ![ElTask] = "done"]
    /\ UNCHANGED <<script, env, source, fs, clock, wp, idx, acc,
                   cur, prev, builds>>
    /\ UNCHANGED permalinkVars
    /\ UNCHANGED <<transforms, memoryVars, htmlVars>>
    /\ UNCHANGED configVars

\* --serve: a changed template or watch target starts a new build
ElRebuild ==
    /\ elpc = "watch"
    /\ builds < MaxBuilds
    /\ elpc' = "data"
    /\ UNCHANGED <<script, task, env, source, fs, dist, clock, wp,
                   idx, acc, cur, prev, builds>>
    /\ UNCHANGED permalinkVars
    /\ UNCHANGED <<transforms, memoryVars, htmlVars>>
    /\ UNCHANGED configVars

-----------------------------------------------------------------------------

\* a session of production builds: npm run prod, npm run build:site, npx eleventy
NextProd ==
    \/ \E s \in ProdScripts : StartScript(s)
    \/ EndScript
    \/ \E p \in Paths, v \in SourceVersions : EditSource(p, v)
    \/ Tick
    \/ DelDist
    \/ WebpackStart("build:assets")
    \/ \E p \in Paths : WebpackOpen(p)
    \/ WebpackWrite
    \/ WebpackDone
    \/ \E t \in SiteTasks,
          e \in {"production", "undefined", "staging", "PRODUCTION"} :
            ElStart(t, e)
    \/ CacheBustCall
    \/ CacheBustEntry
    \/ CacheBustReturn
    \/ ElWrite

\* a development session: npm run dev, interrupted and restarted at will
NextDev ==
    \/ \E s \in DevScripts : StartScript(s)
    \/ EndScript
    \/ \E p \in Paths, v \in SourceVersions : EditSource(p, v)
    \/ Tick
    \/ WebpackStart("dev:assets")
    \/ \E p \in Paths : WebpackOpen(p)
    \/ WebpackWrite
    \/ WebpackDone
    \/ WebpackRecompile
    \/ ElStart("dev:site", "development")
    \/ CacheBustCall
    \/ CacheBustEntry
    \/ CacheBustReturn
    \/ ElWrite
    \/ ElRebuild

Next == NextProd

Spec == Init /\ [][Next]_vars

SpecDev == Init /\ [][NextDev]_vars

-----------------------------------------------------------------------------
(* The Permalink Deriver applied to the pages of src/_pages *)

InitPermalink ==
    /\ InitTools
    /\ source = [p \in Paths |-> 1]
    /\ filePathStem \in Stems
    /\ permalink = ""
    /\ ppc = "stem"
    /\ otherStem = ""
    /\ otherPermalink = ""
    /\ InitHtmlIdle
    /\ InitConfigIdle

\* Eleventy renders the permalink template of _pages.json for the page
RenderPermalink ==
    /\ ppc = "stem"
    /\ permalink' = Permalink(filePathStem)
    /\ ppc' = "done"
    /\ UNCHANGED <<filePathStem, otherStem, otherPermalink>>
    /\ UNCHANGED <<buildVars, transforms, memoryVars, htmlVars>>
    /\ UNCHANGED configVars

\* Eleventy goes on to another page
NextPage(stem) ==
    /\ ppc = "done"
    /\ filePathStem' = stem
    /\ permalink' = ""
    /\ ppc' = "stem"
    /\ UNCHANGED <<otherStem, otherPermalink>>
    /\ UNCHANGED <<buildVars, transforms, memoryVars, htmlVars>>
    /\ UNCHANGED configVars

NextPermalink ==
    \/ RenderPermalink
    \/ \E stem \in Stems : NextPage(stem)

SpecPermalink == InitPermalink /\ [][NextPermalink]_vars

(***************************************************************************)
(* Two pages of one site: both are under src/_pages and both get their     *)
(* permalink from _pages.json.                                             *)
(***************************************************************************)
\* the stems of the second page: one directory level less than the first
OtherStems ==
    {"/_pages" \o p : p \in UNION {PathsOfDepth(d) : d \in 1..(MaxDepth - 1)}}

InitPermalinkPair ==
    /\ InitTools
    /\ source = [p \in Paths |-> 1]
    /\ filePathStem \in Stems
    /\ otherStem \in OtherStems \ {filePathStem}
    /\ permalink = ""
    /\ otherPermalink = ""
    /\ ppc = "stem"
    /\ InitHtmlIdle
    /\ InitConfigIdle

\* Eleventy renders the permalink template for the second page
RenderOther ==
    /\ ppc = "done"
    /\ otherPermalink' = Permalink(otherStem)
    /\ ppc' = "both"
    /\ UNCHANGED <<filePathStem, permalink, otherStem>>
    /\ UNCHANGED <<buildVars, transforms, memoryVars, htmlVars>>
    /\ UNCHANGED configVars

NextPermalinkPair ==
    \/ RenderPermalink
    \/ RenderOther

SpecPermalinkPair == InitPermalinkPair /\ [][NextPermalinkPair]_vars

(***************************************************************************)
(* webpack loads one of the mode-specific config files, which requires     *)
(* the common config and merges its own settings over it.                  *)
(***************************************************************************)
InitWebpack ==
    /\ InitTools
    /\ source = [p \in Paths |-> 1]
    /\ InitPermalinkIdle
    /\ InitHtmlIdle
    /\ common \in {CommonWith(keys) : keys \in SUBSET CommonKeys}
    /\ configFile \in ConfigFiles
    /\ config = Obj(<<>>)
    /\ cpc = "file"

\* module.exports = merge(common, {...})
RequireConfig ==
    /\ cpc = "file"
    /\ config' = merge(common, ModeConfig(configFile))
    /\ cpc' = "merged"
    /\ UNCHANGED <<common, configFile>>
    /\ UNCHANGED <<buildVars, transforms, memoryVars, htmlVars, permalinkVars>>

NextWebpack == RequireConfig

SpecWebpack == InitWebpack /\ [][NextWebpack]_vars

(***************************************************************************)
(* The htmlmin transform of .eleventy.js.  Rendered content is a sequence  *)
(* of tokens: "t" is markup or text, "s" a run of one whitespace           *)
(* character, "c" an HTML comment.                                         *)
(***************************************************************************)
MaxLen == 3

Tokens == {"t", "s", "c"}

Contents == UNION {[1..n -> Tokens] : n \in 0..MaxLen}

OutputPaths == {"dist/index.html", "dist/foo/index.html", "dist/feed.xml",
                "dist/index.html.txt", "dist/html"}

BuildModes == {"production", "development", "undefined", "staging",
               "PRODUCTION"}

\* removeComments: true
RECURSIVE RemoveComments(_)
RemoveComments(c) ==
    IF c = <<>> THEN <<>>
    ELSE IF Head(c) = "c" THEN RemoveComments(Tail(c))
         ELSE <<Head(c)>> \o RemoveComments(Tail(c))

\* collapseWhitespace: true
RECURSIVE CollapseWhitespace(_)
CollapseWhitespace(c) ==
    IF Len(c) < 2 THEN c
    ELSE IF Head(c) = "s" /\ c[2] = "s" THEN CollapseWhitespace(Tail(c))
         ELSE <<Head(c)>> \o CollapseWhitespace(Tail(c))

\* htmlmin.minify(content, {...})
Minify(c) == CollapseWhitespace(RemoveComments(c))

\* the transform minifies whatever it is given
HtmlminAnyPath(c, path) == Minify(c)

\* the function registered under the name htmlmin
HtmlminTransform(c, path) ==
    IF EndsWith(path, ".html") THEN Minify(c) ELSE c

\* Eleventy passes the rendered content through the registered transforms
ApplyTransforms(ts, c, path) ==
    IF "htmlmin" \in ts THEN HtmlminTransform(c, path) ELSE c

InitHtmlmin ==
    /\ InitTools
    /\ source = [p \in Paths |-> 1]
    /\ InitPermalinkIdle
    /\ InitHtmlIdle
    /\ InitConfigIdle

\* Eleventy starts with ELEVENTY_ENV = e and evaluates .eleventy.js
LoadConfig(e) ==
    /\ hpc = "idle"
    /\ env' = e
    /\ transforms' = RegisteredTransforms(e)
    /\ hpc' = "configured"
    /\ UNCHANGED <<script, task, source, fs, dist, clock, wp,
                   elpc, idx, acc, cur, prev, builds>>
    /\ UNCHANGED <<permalinkVars, memoryVars, outputPath, content, output>>
    /\ UNCHANGED configVars

\* one template is rendered to c and written to path
WriteTemplate(path, c) ==
    /\ hpc \in {"configured", "written"}
    /\ outputPath' = path
    /\ content' = c
    /\ output' = ApplyTransforms(transforms, c, path)
    /\ hpc' = "written"
    /\ UNCHANGED <<buildVars, permalinkVars, memoryVars, transforms>>
    /\ UNCHANGED configVars

NextHtmlmin ==
    \/ \E e \in BuildModes : LoadConfig(e)
    \/ \E path \in OutputPaths, c \in Contents : WriteTemplate(path, c)

SpecHtmlmin == InitHtmlmin /\ [][NextHtmlmin]_vars

-----------------------------------------------------------------------------
(* Properties of the Permalink Deriver, under SpecPermalink *)

\* the stems and destinations the tutorial lists
Documented ==
    {<<"/_pages/index", "/index.html">>,
     <<"/_pages/foo/index", "/foo/index.html">>,
     <<"/_pages/foo/bar", "/foo/bar/index.html">>,
     <<"/_pages/foo/baz/index", "/foo/baz/index.html">>,
     <<"/_pages/foo/baz/qux", "/foo/baz/qux/index.html">>}

\* C8: each documented stem is mapped to its documented destination; the root
\* index stem becomes /index.html, with no dangling or doubled separator.
C8_DocumentedPermalinks ==
    ppc = "done" =>
        \A d \in Documented : filePathStem = d[1] => permalink = d[2]

C8_Witness ==
    /\ ppc = "done"
    /\ filePathStem = "/_pages/index"
    /\ permalink = "/index.html"

\* the stem without the source root it begins with
Remainder(stem) == SubSeq(stem, Len("/_pages") + 1, Len(stem))

\* C9: an "index" segment is removed only when it is the trailing segment:
\* a remainder that does not end with "/index" is kept whole, and one that
\* does loses exactly that final segment and its separator.
C9_TrailingIndexOnly ==
    ppc = "done" =>
        LET rem == Remainder(filePathStem)
        IN  permalink =
                (IF EndsWith(rem, "/index")
                 THEN SubSeq(rem, 1, Len(rem) - Len("/index"))
                 ELSE rem) \o "/index.html"

-----------------------------------------------------------------------------
(* Properties of the Cache-Bust Resolver and of the scripts *)

Production(inv) == inv.env = "production"
Returned(inv) == inv.outcome = "returned"

\* the hexadecimal digest of a byte sequence
HexDigest(bytes) == Str(Hex2(DigestFold(212, bytes)))

\* C1: in production with every registry file present, the token of every key
\* is the hexadecimal digest of the bytes stored at its path, and entries
\* whose files hold the same bytes get the same token whatever their key.
C1_ContentDigest ==
    (env = "production" /\ elpc \in {"reduce", "write"}) =>
        /\ \A k \in DOMAIN acc :
            /\ fs[files[k]] # Absent
            /\ TokEq(acc[k], HexDigest(fs[files[k]]))
            /\ \A k2 \in DOMAIN acc :
                fs[files[k]] = fs[files[k2]] => TokEq(acc[k], acc[k2])
        /\ elpc = "write" => DOMAIN acc = KeySet

C1_Witness ==
    /\ env = "production"
    /\ elpc = "write"
    /\ fs[files.mainCss] = fs[files.mainJs]
    /\ fs[files.vendorJs] # fs[files.mainCss]
    /\ TokEq(acc.mainCss, acc.mainJs)
    /\ ~TokEq(acc.vendorJs, acc.mainCss)

\* C2: every table the Resolver returns, in either build mode, has exactly
\* the keys of the Asset Registry.
C2_ExactKeys ==
    /\ Returned(cur) => DOMAIN cur.table = KeySet
    /\ Returned(prev) => DOMAIN prev.table = KeySet
    /\ elpc = "write" => DOMAIN acc = KeySet

C2_Witness ==
    /\ Returned(cur) /\ Returned(prev)
    /\ Production(cur) /\ ~Production(prev)
    /\ DOMAIN cur.table = {"mainCss", "mainJs", "vendorJs"}
    /\ DOMAIN prev.table = {"mainCss", "mainJs", "vendorJs"}

\* C3: in production a registry path without a file makes the invocation
\* fail: the error reaches the site build, no table is returned, whole or
\* partial, and no timestamp stands in for the missing file.
C3_MissingAssetFatal ==
    Production(cur) =>
        /\ (\E p \in Paths : cur.seen[p] = Absent) =>
                /\ cur.outcome = "thrown"
                /\ DOMAIN cur.table = {}
                /\ DOMAIN acc = {}
                /\ elpc \notin {"reduce", "write"}
                /\ elpc \notin {"off", "data"} =>
                        /\ elpc = "failed"
                        /\ \E t \in SiteTasks : task[t] = "failed"
        /\ Returned(cur) =>
                /\ \A p \in Paths : cur.seen[p] \notin {Absent, Unread}
                /\ \A k \in DOMAIN cur.table : cur.table[k].type = "string"

C3_Witness ==
    /\ Production(cur)
    /\ cur.outcome = "thrown"
    /\ cur.seen[files.mainCss] \notin {Absent, Unread}
    /\ cur.seen[files.mainJs] \notin {Absent, Unread}
    /\ cur.seen[files.vendorJs] = Absent
    /\ elpc = "failed"

\* C6: two production invocations that read the same bytes of every asset
\* return tables equal key by key, however much time passes between them.
C6_Idempotent ==
    ( /\ Production(cur) /\ Returned(cur)
      /\ Production(prev) /\ Returned(prev)
      /\ \A p \in Paths : cur.seen[p] = prev.seen[p] ) =>
        \A k \in KeySet : TokEq(cur.table[k], prev.table[k])

C6_Witness ==
    /\ Production(cur) /\ Returned(cur)
    /\ Production(prev) /\ Returned(prev)
    /\ \A p \in Paths : cur.seen[p] = prev.seen[p]
    /\ clock > 0
    /\ \A k \in KeySet : TokEq(cur.table[k], prev.table[k])

\* C7: across two successive production builds, the token of every asset
\* whose bytes are unchanged is the same in both tables.
C7_UnchangedKeepToken ==
    ( /\ Production(cur) /\ Returned(cur)
      /\ Production(prev) /\ Returned(prev) ) =>
        \A k \in KeySet :
            cur.seen[files[k]] = prev.seen[files[k]] =>
                TokEq(cur.table[k], prev.table[k])

C7_Witness ==
    /\ Production(cur) /\ Returned(cur)
    /\ Production(prev) /\ Returned(prev)
    /\ cur.seen[files.mainCss] # prev.seen[files.mainCss]
    /\ cur.seen[files.mainJs] = prev.seen[files.mainJs]
    /\ cur.seen[files.vendorJs] = prev.seen[files.vendorJs]
    /\ ~TokEq(cur.table.mainCss, prev.table.mainCss)
    /\ TokEq(cur.table.mainJs, prev.table.mainJs)
    /\ TokEq(cur.table.vendorJs, prev.table.vendorJs)

\* C10: in the prod script the tasks run one after another: dist is cleaned
\* before webpack starts, and the site build, with the Resolver's reads and
\* the copy to dist, starts only after webpack has finished.
C10_ProdSequential ==
    script = "prod" =>
        /\ task["build:assets"] # "pending" => task["del:dist"] = "done"
        /\ task["build:site"] # "pending" => task["build:assets"] = "done"
        /\ elpc # "off" => (wp.pc = "off" /\ task["build:assets"] = "done")
        /\ wp.pc # "off" => (elpc = "off" /\ dist = NoDist)
        /\ (task["del:dist"] = "done" /\ task["build:site"] # "done") =>
                dist = NoDist

C10_Witness ==
    /\ script = "prod"
    /\ builds = 2
    /\ elpc = "write"
    /\ task["del:dist"] = "done"
    /\ task["build:assets"] = "done"
    /\ task["build:site"] = "running"
    /\ dist = NoDist
    /\ \A p \in Paths : cur.seen[p] = fs[p]

-----------------------------------------------------------------------------
(* Properties of the Resolver in a development session, under SpecDev *)

\* C4: in development mode the Resolver never fails and never reads an asset,
\* whatever the files are (absent, being written by webpack, present) and
\* wherever webpack is; what it returns is a complete table of timestamps.
C4_DevNeverFails ==
    env # "production" =>
        /\ elpc # "failed"
        /\ cur.outcome # "thrown"
        /\ \A p \in Paths : cur.seen[p] = Unread
        /\ \A k \in DOMAIN acc : acc[k].type = "number"
        /\ Returned(cur) =>
                /\ DOMAIN cur.table = KeySet
                /\ \A k \in KeySet : cur.table[k].type = "number"

C4_Witness ==
    /\ env = "development"
    /\ Returned(cur)
    /\ elpc = "write"
    /\ fs[files.mainCss] \notin {Absent, <<>>}
    /\ wp.writing = files.mainJs
    /\ fs[files.vendorJs] = Absent
    /\ DOMAIN cur.table = KeySet

C11_HtmlminProductionOnly ==
    /\ hpc # "idle" => (("htmlmin" \in transforms) <=> (env = "production"))
    /\ hpc # "idle" => transforms \subseteq {"htmlmin"}
    /\ hpc = "written" =>
         IF env = "production" /\ EndsWith(outputPath, ".html")
         THEN /\ output = Minify(content)
              /\ \A i \in 1..Len(output) : output[i] # "c"
              /\ \A i \in 1..(Len(output) - 1) :
                    ~(output[i] = "s" /\ output[i + 1] = "s")
              /\ SelectSeq(output, LAMBDA x : x = "t")
                    = SelectSeq(content, LAMBDA x : x = "t")
         ELSE output = content

\* a production build wrote a page minified and shorter than rendered
C11_Witness ==
    /\ hpc = "written"
    /\ env = "production"
    /\ outputPath = "dist/foo/index.html"
    /\ content = <<"t", "c", "t">>
    /\ output = <<"t", "t">>

\* the tokens of a table are content digests
Digests(t) == \A k \in DOMAIN t : t[k].type = "string"

\* the tokens of a table are timestamps
Timestamps(t) == \A k \in DOMAIN t : t[k].type = "number"

(***************************************************************************)
(* C12: the build mode is decided by ELEVENTY_ENV alone.  In a build whose *)
(* flag is exactly "production" the Resolver's tokens are content digests  *)
(* and htmlmin is registered; with any other value, or none, the tokens    *)
(* are timestamps and no transform is registered.  So in every build the   *)
(* tokens are digests exactly when htmlmin is registered.                  *)
(***************************************************************************)
C12_ModeByFlagAlone ==
    /\ elpc # "off" =>
         (("htmlmin" \in transforms) <=> (env = "production"))
    /\ elpc \in {"reduce", "write", "watch"} =>
         /\ env = "production" => Digests(acc)
         /\ env # "production" => Timestamps(acc)
         /\ acc # <<>> => (Digests(acc) <=> ("htmlmin" \in transforms))
    /\ (elpc \in {"write", "watch"} /\ Returned(cur)) =>
         /\ cur.env = env
         /\ Digests(cur.table) <=> ("htmlmin" \in transforms)
         /\ Timestamps(cur.table) <=> ("htmlmin" \notin transforms)

\* a production build is about to write minified pages with digest tokens
C12_Witness ==
    /\ env = "production"
    /\ elpc = "write"
    /\ Returned(cur)
    /\ DOMAIN cur.table = KeySet
    /\ Digests(cur.table)
    /\ transforms = {"htmlmin"}

(***************************************************************************)
(* C13: the mode is the same for every entry of one invocation, so a table *)
(* is never mixed: at every point of the reduce, and in every returned     *)
(* table, the tokens are all digests or all timestamps.                    *)
(***************************************************************************)
C13_Homogeneous ==
    /\ Digests(acc) \/ Timestamps(acc)
    /\ Returned(cur) => (Digests(cur.table) \/ Timestamps(cur.table))
    /\ Returned(prev) => (Digests(prev.table) \/ Timestamps(prev.table))
    /\ Returned(cur) => (Digests(cur.table) <=> Production(cur))
    /\ Returned(prev) => (Digests(prev.table) <=> Production(prev))

\* a timestamp table was returned although one asset file could be digested
\* and another could not
C13_Witness ==
    /\ Returned(cur)
    /\ ~Production(cur)
    /\ DOMAIN cur.table = KeySet
    /\ Timestamps(cur.table)
    /\ cur.seen = [p \in Paths |-> Unread]
    /\ fs[files.mainCss] # Absent
    /\ fs[files.vendorJs] = Absent

\* a step of the Resolver: the call, one reducer call, or the return
ResolverStep == builds' # builds \/ acc' # acc \/ cur' # cur

\* what holds of the process memory in every state
C14_TablesApart ==
    /\ cur.outcome = "running" =>
         /\ accRef = cur.ref
         /\ cur.ref # prev.ref
         /\ heap[accRef] = acc
         /\ DOMAIN acc = {Keys[i] : i \in 1..(idx - 1)}
    /\ (Returned(cur) /\ cur.ref \in DOMAIN heap) =>
         heap[cur.ref] = cur.table
    /\ (Returned(prev) /\ prev.ref \in DOMAIN heap) =>
         /\ prev.ref # cur.ref
         /\ heap[prev.ref] = prev.table

(***************************************************************************)
(* C14: the Resolver keeps nothing from one invocation to the next.  Each  *)
(* invocation accumulates into a new object that starts empty and holds    *)
(* only the keys this invocation has processed; the table an earlier       *)
(* invocation returned still has the contents it was returned with; and no *)
(* step of the Resolver changes an asset file or the output directory.     *)
(***************************************************************************)
C14_NoStateAcrossInvocations ==
    /\ []C14_TablesApart
    /\ [][ResolverStep => (fs' = fs /\ source' = source /\ dist' = dist)]_vars

\* one process has invoked the Resolver twice and holds two different tables
C14_Witness ==
    /\ Returned(prev)
    /\ Returned(cur)
    /\ prev.ref \in DOMAIN heap
    /\ cur.ref \in DOMAIN heap
    /\ heap[prev.ref] = prev.table
    /\ heap[cur.ref] = cur.table
    /\ \E k \in KeySet : ~TokEq(cur.table[k], prev.table[k])

\* one stem is the other followed by a trailing /index
IndexOfOther(a, b) == a = b \o "/index" \/ b = a \o "/index"

(***************************************************************************)
(* C15: two distinct stems get the same permalink only when one of them is *)
(* the other followed by a trailing "/index"; every other pair of distinct *)
(* stems gets distinct permalinks.                                         *)
(***************************************************************************)
C15_CollideOnlyWithIndex ==
    (ppc = "both" /\ filePathStem # otherStem /\ permalink = otherPermalink)
        => IndexOfOther(filePathStem, otherStem)

\* the value of the setting at a path of keys, inside an object that has it
RECURSIVE Setting(_, _)
Setting(c, path) ==
    IF path = <<>> THEN c ELSE Setting(c.val[Head(path)], Tail(path))

\* the object has a setting at the path of keys
RECURSIVE HasSetting(_, _)
HasSetting(c, path) ==
    \/ path = <<>>
    \/ /\ c.kind = "object"
       /\ Head(path) \in DOMAIN c.val
       /\ HasSetting(c.val[Head(path)], Tail(path))

\* the settings of the common config the merge is to keep
CommonSettings == {<<"entry">>, <<"output">>, <<"output", "path">>,
                   <<"module">>, <<"module", "rules">>, <<"plugins">>,
                   <<"optimization", "splitChunks">>,
                   <<"optimization", "splitChunks", "cacheGroups", "commons">>}

(***************************************************************************)
(* C16: the merged config keeps every setting of the common config         *)
(* unchanged: entry, output path, module rules, plugins and the vendor     *)
(* splitChunks cache group.  The production config has in addition mode    *)
(* "production" and the two minimizers next to splitChunks; the            *)
(* development config has in addition mode "development" and watch true.   *)
(***************************************************************************)
C16_MergeKeepsCommon ==
    cpc = "merged" =>
      /\ \A path \in CommonSettings :
            HasSetting(common, path) =>
                /\ HasSetting(config, path)
                /\ Setting(config, path) = Setting(common, path)
      /\ configFile = "webpack.config.prod.js" =>
            /\ config.val.mode = Scalar("production")
            /\ config.val.optimization.val.minimizer =
                  Arr(<<Instance("OptimizeCssAssetsPlugin"),
                        Instance("TerserPlugin")>>)
            /\ "watch" \notin DOMAIN config.val
      /\ configFile = "webpack.config.dev.js" =>
            /\ config.val.mode = Scalar("development")
            /\ config.val.watch = Boolean("true")
            /\ HasSetting(config, <<"optimization">>) =>
                  "minimizer" \notin DOMAIN config.val.optimization.val

\* the production config of the whole common config: the minimizers and the
\* vendor cache group side by side
C16_Witness ==
    /\ cpc = "merged"
    /\ common = CommonConfig
    /\ configFile = "webpack.config.prod.js"
    /\ DOMAIN config.val = CommonKeys \cup {"mode"}
    /\ DOMAIN config.val.optimization.val = {"minimizer", "splitChunks"}
    /\ Setting(config, <<"optimization", "splitChunks", "cacheGroups",
                         "commons", "name">>) = Scalar("vendor")
    /\ Len(config.val.optimization.val.minimizer.val) = 2

====




